---- MODULE Spec2Model ----
(***************************************************************************)
(* Model of app.py, the Streamlit emotion-based music recommender.         *)
(*                                                                         *)
(* The script is executed top to bottom once per browser event (page load, *)
(* photo taken, photo cleared, rerun).  Process state that survives a run  *)
(* is the st.cache_resource slot; session state that survives a run is the *)
(* value of the camera widget.  Everything else is a script-level name     *)
(* that each run binds afresh, and the columns the run writes to.          *)
(*                                                                         *)
(* A Python str is a sequence of one-character strings, so that lower()    *)
(* and upper() are computed character by character.  Display texts and     *)
(* URLs are never inspected by the code and stay opaque strings; the emoji *)
(* that starts each display text is written as its code point, [U+....].   *)
(***************************************************************************)
EXTENDS Naturals, Sequences, FiniteSets

VARIABLES
    cache,             \* st.cache_resource slot of load_deepface_resource
    loadRuns,          \* how often the body of load_deepface_resource ran
    widget,            \* value held by the st.camera_input widget
    pc,                \* position of the script run
    DEEPFACE_READY,    \* script name bound at line 27
    camera_image,      \* script name bound at line 81
    img_array,         \* script name bound at lines 95-97
    analysis_results,  \* script name bound at line 101
    dominant_emotion,  \* script name bound at line 111
    recommendation,    \* script name bound at line 112
    raised,            \* exception in flight / caught as e (line 149)
    col1,              \* what the run drew below the camera (line 90)
    col2,              \* elements the run wrote to the result column
    analyzeCalls,      \* DEEPFACE_READY.analyze calls of the current run
    frameCalls,        \* DEEPFACE_READY.analyze calls since the last capture
    reruns,            \* script runs Streamlit repeated since the last capture
    lookups,           \* MUSIC_MAPPING.get calls of the current run
    passInput,         \* the frame and classifier response the run consumed
    prevKind,          \* outcome of the previous capture pass
    ref                \* a remembered earlier pass: its input and its end state

vars == << cache, loadRuns, widget, pc, DEEPFACE_READY, camera_image, img_array,
           analysis_results, dominant_emotion, recommendation, raised, col1, col2,
           analyzeCalls, frameCalls, reruns, lookups, passInput, prevKind, ref >>

----------------------------------------------------------------------------
(* Bounds *)

\* longest list the classifier returns (one entry per face)
MaxFaces == 2

\* how often the script is run again on the same widget value
MaxReruns == 1

----------------------------------------------------------------------------
(* Python str: lower() and upper() *)

UpperChars == << "A", "B", "C", "D", "E", "F", "G", "H", "I", "J", "K", "L", "M",
                 "N", "O", "P", "Q", "R", "S", "T", "U", "V", "W", "X", "Y", "Z" >>

LowerChars == << "a", "b", "c", "d", "e", "f", "g", "h", "i", "j", "k", "l", "m",
                 "n", "o", "p", "q", "r", "s", "t", "u", "v", "w", "x", "y", "z" >>

LowerChar(c) ==
    IF \E i \in DOMAIN UpperChars : UpperChars[i] = c
    THEN LowerChars[CHOOSE i \in DOMAIN UpperChars : UpperChars[i] = c]
    ELSE c

UpperChar(c) ==
    IF \E i \in DOMAIN LowerChars : LowerChars[i] = c
    THEN UpperChars[CHOOSE i \in DOMAIN LowerChars : LowerChars[i] = c]
    ELSE c

\* str.lower()
lower(s) == [i \in DOMAIN s |-> LowerChar(s[i])]

\* str.upper()
upper(s) == [i \in DOMAIN s |-> UpperChar(s[i])]

----------------------------------------------------------------------------
(* MUSIC_MAPPING, lines 38-67 *)

happy    == << "h", "a", "p", "p", "y" >>
sad      == << "s", "a", "d" >>
angry    == << "a", "n", "g", "r", "y" >>
surprise == << "s", "u", "r", "p", "r", "i", "s", "e" >>
fear     == << "f", "e", "a", "r" >>
neutral  == << "n", "e", "u", "t", "r", "a", "l" >>
disgust  == << "d", "i", "s", "g", "u", "s", "t" >>

MUSIC_MAPPING ==
    [k \in {happy, sad, angry, surprise, fear, neutral, disgust} |->
        CASE k = happy ->
               [text |-> "[U+1F604] High-Energy Telugu Pop & Dance Hits",
                url  |-> "https://www.youtube.com/results?search_query=latest+telugu+party+songs+bounce"]
          [] k = sad ->
               [text |-> "[U+1F60C] Soothing Telugu Melody Songs (Comforting)",
                url  |-> "https://www.youtube.com/results?search_query=best+telugu+melody+songs+for+sad+mood"]
          [] k = angry ->
               [text |-> "[U+1F9D8] Peaceful Telugu Instrumental Music (Calm Down)",
                url  |-> "https://www.youtube.com/results?search_query=telugu+instrumental+meditation+music+relax"]
          [] k = surprise ->
               [text |-> "[U+1F92F] Upbeat Telugu Title Tracks & Mashups",
                url  |-> "https://www.youtube.com/results?search_query=hit+telugu+title+songs+mashup"]
          [] k = fear ->
               [text |-> "[U+1F6E1 U+FE0F] Classic Telugu Devotional or Motivational Songs",
                url  |-> "https://www.youtube.com/results?search_query=telugu+motivational+songs+jukebox"]
          [] k = neutral ->
               [text |-> "[U+2615] Background Telugu Instrumental Tracks",
                url  |-> "https://www.youtube.com/results?search_query=telugu+instrumental+bgm+for+concentration"]
          [] k = disgust ->
               [text |-> "[U+1F31F] Ultimate Telugu Feel-Good Romantic Jams",
                url  |-> "https://www.youtube.com/results?search_query=evergreen+telugu+romantic+hits+feel+good"]]

----------------------------------------------------------------------------
(* Values of the script's names *)

\* a name the current run has not bound yet
Unbound == "<unbound>"

UnboundStr == << Unbound >>

UnboundResults == [kind |-> Unbound, faces |-> << >>]

UnboundEntry == [text |-> Unbound, url |-> Unbound]

NoException == [active |-> FALSE, e |-> ""]

\* The script's names at the start of a run: Streamlit executes the script
\* in a new namespace, so no name of the previous run is bound.
ScriptNamespace_Retained ==
    [DEEPFACE_READY   |-> DEEPFACE_READY,
     camera_image     |-> camera_image,
     img_array        |-> img_array,
     analysis_results |-> analysis_results,
     dominant_emotion |-> dominant_emotion,
     recommendation   |-> recommendation,
     raised           |-> raised]

ScriptNamespace ==
    [DEEPFACE_READY   |-> Unbound,
     camera_image     |-> Unbound,
     img_array        |-> Unbound,
     analysis_results |-> UnboundResults,
     dominant_emotion |-> UnboundStr,
     recommendation   |-> UnboundEntry,
     raised           |-> NoException]

----------------------------------------------------------------------------
(* Inputs: frames the camera widget delivers, results the classifier gives *)

\* a decodable photo, bytes that are no image, and an empty buffer
Frames == {"jpeg", "garbage", "empty"}

Capitalized(s) == [i \in DOMAIN s |-> IF i = 1 THEN UpperChar(s[i]) ELSE s[i]]

DefinedLabels == {happy, sad, angry, surprise, fear, neutral, disgust}

\* labels outside the table, after lower() too
UnknownLabels ==
    { << "c", "o", "n", "t", "e", "m", "p", "t" >>,
      << "C", "O", "N", "T", "E", "M", "P", "T" >>,
      << "J", "o", "y" >>,
      << "h", "a", "p", "p", "y", " " >> }

\* every label the classifier may report as dominant_emotion
Labels ==
    DefinedLabels
      \cup {upper(l) : l \in DefinedLabels}
      \cup {Capitalized(happy), Capitalized(neutral)}
      \cup {<< "h", "A", "p", "P", "y" >>}
      \cup UnknownLabels

\* one entry of the result list; present = FALSE is a missing or None
\* 'dominant_emotion', and the empty str is a label too
FirstFaces ==
    {[present |-> TRUE, dominant_emotion |-> l] : l \in Labels \cup {<< >>}}
      \cup {[present |-> FALSE, dominant_emotion |-> << >>]}

OtherFace == [present |-> TRUE, dominant_emotion |-> sad]

ListResults ==
    {[kind |-> "list", faces |-> << >>]}
      \cup {[kind |-> "list",
             faces |-> [i \in 1..n |-> IF i = 1 THEN f ELSE OtherFace]] :
               f \in FirstFaces, n \in 1..MaxFaces}

\* what DEEPFACE_READY.analyze does: raise, or return None, an object that
\* is no list, or a list with one entry per face
Responses ==
    {[raises |-> TRUE, kind |-> "raise", faces |-> << >>]}
      \cup {[raises |-> FALSE, kind |-> k, faces |-> << >>] : k \in {"None", "notalist"}}
      \cup {[raises |-> FALSE, kind |-> r.kind, faces |-> r.faces] : r \in ListResults}

NotInvoked == [raises |-> FALSE, kind |-> "notinvoked", faces |-> << >>]

NoInput == [frame |-> "none", resp |-> NotInvoked]

----------------------------------------------------------------------------
(* The pure steps of the pass *)

\* body of load_deepface_resource (lines 15-24): the try block allocates a
\* 1x1x3 array and returns the imported library; nothing in it raises, so
\* the except branch that returns None is never taken.
load_deepface_resource == "DeepFace"

\* @st.cache_resource (line 12): the body runs only while the slot is empty
CacheMiss_Always(slot) == TRUE

CacheMiss(slot) == slot = "empty"

\* line 86
PassGuard_NoCameraCheck(ci, df) == df # "None"

PassGuard(ci, df) == ci # "none" /\ df # "None"

\* lines 94-97: getvalue, frombuffer, imdecode, cvtColor.  cv2.imdecode
\* raises on an empty buffer and returns None for bytes that are no image;
\* cv2.cvtColor raises on None.
imdecode(buf) ==
    CASE buf = "jpeg"    -> [ok |-> TRUE,  img |-> "bgr",  e |-> ""]
      [] buf = "garbage" -> [ok |-> TRUE,  img |-> "None", e |-> ""]
      [] OTHER           -> [ok |-> FALSE, img |-> Unbound, e |-> "cv2.error: imdecode: !buf.empty()"]

cvtColor(img) ==
    CASE img = "bgr" -> [ok |-> TRUE,  img |-> "rgb", e |-> ""]
      [] OTHER       -> [ok |-> FALSE, img |-> Unbound, e |-> "cv2.error: cvtColor: !_src.empty()"]

DecodeFrame_Lenient(ci) == [ok |-> TRUE, img |-> "rgb", e |-> ""]

DecodeFrame(ci) ==
    IF ci = "none"
    THEN [ok |-> FALSE, img |-> Unbound,
          e |-> "AttributeError: 'NoneType' object has no attribute 'getvalue'"]
    ELSE IF ~imdecode(ci).ok THEN imdecode(ci) ELSE cvtColor(imdecode(ci).img)

\* line 109: analysis_results and isinstance(analysis_results, list)
\*           and analysis_results[0].get('dominant_emotion')
HasDominant_IgnoreLabel(ar) == ar.kind = "list" /\ Len(ar.faces) > 0

HasDominant(ar) ==
    /\ ar.kind # "None"
    /\ ~(ar.kind = "list" /\ Len(ar.faces) = 0)
    /\ ar.kind = "list"
    /\ ar.faces[1].present
    /\ Len(ar.faces[1].dominant_emotion) > 0

\* line 111: analysis_results[0]['dominant_emotion'].lower()
NormalizeLabel_AsIs(ar) == ar.faces[1].dominant_emotion

NormalizeLabel(ar) == lower(ar.faces[1].dominant_emotion)

\* line 112: MUSIC_MAPPING.get(dominant_emotion, MUSIC_MAPPING["neutral"])
Recommend_FallbackHappy(d) ==
    IF d \in DOMAIN MUSIC_MAPPING THEN MUSIC_MAPPING[d] ELSE MUSIC_MAPPING[happy]

Recommend_Shifted(d) ==
    IF d = happy THEN MUSIC_MAPPING[sad]
    ELSE IF d \in DOMAIN MUSIC_MAPPING THEN MUSIC_MAPPING[d] ELSE MUSIC_MAPPING[neutral]

Recommend(d) ==
    IF d \in DOMAIN MUSIC_MAPPING THEN MUSIC_MAPPING[d] ELSE MUSIC_MAPPING[neutral]

----------------------------------------------------------------------------
(* Elements written to the result column *)

Element(el, text, mood, e) == [el |-> el, text |-> text, mood |-> mood, e |-> e]

NoFaceMessage == "No face detected. Please ensure your face is clearly visible and centered in the frame, and try again."

UnexpectedMessage == "An unexpected error occurred during analysis. Error: "

\* lines 115-142
ResultElements(d, rec) ==
    << Element("markdown", "### Analysis Result", << >>, ""),
       Element("success", "Your Detected Mood:", upper(d), ""),
       Element("markdown", "The system is recommending music for a mood.", upper(d), ""),
       Element("subheader", "Your Recommended Playlist", << >>, ""),
       Element("markdown", rec.text, << >>, ""),
       Element("link_button", rec.url, << >>, ""),
       Element("info", "The playlist should open directly in a new tab.", << >>, "") >>

\* lines 145-147
NoFaceElements == << Element("error", NoFaceMessage, << >>, "") >>

\* lines 149-152
ExceptElements(e) ==
    << Element("error", UnexpectedMessage, << >>, e),
       Element("code", "", << >>, e) >>

\* the script ends after the except block (line 152): the run is over
AfterExcept_Retry == "decode"

AfterExcept_Fatal == "crashed"

AfterExcept == "idle"

----------------------------------------------------------------------------
(* What a run reported, read off the result column *)

Rendered == \E i \in DOMAIN col2 : col2[i].el = "link_button"

NoFaceDetected ==
    \E i \in DOMAIN col2 : col2[i].el = "error" /\ col2[i].text = NoFaceMessage

AnalysisFailure ==
    \E i \in DOMAIN col2 : col2[i].el = "error" /\ col2[i].text = UnexpectedMessage

OutcomeKind ==
    IF Len(col2) = 0 THEN "none"
    ELSE IF Rendered /\ ~NoFaceDetected /\ ~AnalysisFailure THEN "result"
    ELSE IF NoFaceDetected /\ ~Rendered /\ ~AnalysisFailure THEN "noface"
    ELSE IF AnalysisFailure /\ ~Rendered /\ ~NoFaceDetected THEN "failure"
    ELSE "mixed"

\* everything a finished run leaves behind
EndState ==
    [col1 |-> col1, col2 |-> col2, DEEPFACE_READY |-> DEEPFACE_READY,
     camera_image |-> camera_image, img_array |-> img_array,
     analysis_results |-> analysis_results, dominant_emotion |-> dominant_emotion,
     recommendation |-> recommendation, raised |-> raised, lookups |-> lookups,
     analyzeCalls |-> analyzeCalls]

NoRef == [set |-> FALSE, input |-> NoInput, kind |-> "none"]

----------------------------------------------------------------------------
(* State after the server has started: the first session's page load is    *)
(* about to run the script.                                                *)

Init ==
    /\ cache = "empty"
    /\ loadRuns = 0
    /\ widget = "none"
    /\ pc = "load"
    /\ DEEPFACE_READY = Unbound
    /\ camera_image = Unbound
    /\ img_array = Unbound
    /\ analysis_results = UnboundResults
    /\ dominant_emotion = UnboundStr
    /\ recommendation = UnboundEntry
    /\ raised = NoException
    /\ col1 = "none"
    /\ col2 = << >>
    /\ analyzeCalls = 0
    /\ frameCalls = 0
    /\ reruns = 0
    /\ lookups = 0
    /\ passInput = NoInput
    /\ prevKind = "none"
    /\ ref = NoRef

----------------------------------------------------------------------------
(* Browser events; each one makes Streamlit run the script again *)

\* the user takes a photo with the st.camera_input widget (line 81)
TakePhoto ==
    /\ pc = "idle"
    /\ \E f \in Frames : widget' = f
    /\ frameCalls' = 0
    /\ reruns' = 0
    /\ pc' = "load"
    /\ UNCHANGED << cache, loadRuns, DEEPFACE_READY, camera_image, img_array,
                    analysis_results, dominant_emotion, recommendation,
                    raised, col1, col2, analyzeCalls, lookups, passInput,
                    prevKind, ref >>

\* the user clears the photo: the widget holds None again
ClearPhoto ==
    /\ pc = "idle"
    /\ widget # "none"
    /\ widget' = "none"
    /\ pc' = "load"
    /\ UNCHANGED << cache, loadRuns, DEEPFACE_READY, camera_image, img_array,
                    analysis_results, dominant_emotion, recommendation,
                    raised, col1, col2, analyzeCalls, frameCalls, reruns,
                    lookups, passInput, prevKind, ref >>

\* the page is loaded again: a new session, whose widget holds None
Reload ==
    /\ pc = "idle"
    /\ widget' = "none"
    /\ pc' = "load"
    /\ UNCHANGED << cache, loadRuns, DEEPFACE_READY, camera_image, img_array,
                    analysis_results, dominant_emotion, recommendation,
                    raised, col1, col2, analyzeCalls, frameCalls, reruns,
                    lookups, passInput, prevKind, ref >>

\* Streamlit runs the script again while the widget keeps its value (the
\* user chooses Rerun, or the browser reconnects): st.camera_input then
\* returns the photo it returned before
Rerun ==
    /\ pc = "idle"
    /\ reruns < MaxReruns
    /\ reruns' = reruns + 1
    /\ pc' = "load"
    /\ UNCHANGED << cache, loadRuns, widget, DEEPFACE_READY, camera_image,
                    img_array, analysis_results, dominant_emotion,
                    recommendation, raised, col1, col2, analyzeCalls,
                    frameCalls, lookups, passInput, prevKind, ref >>

----------------------------------------------------------------------------
(* One run of the script *)

\* lines 1-27: a new namespace and an empty page, then
\* DEEPFACE_READY = load_deepface_resource() through st.cache_resource
RunLoad ==
    /\ pc = "load"
    /\ prevKind' = IF passInput.frame # "none" THEN OutcomeKind ELSE prevKind
    /\ camera_image' = ScriptNamespace.camera_image
    /\ img_array' = ScriptNamespace.img_array
    /\ analysis_results' = ScriptNamespace.analysis_results
    /\ dominant_emotion' = ScriptNamespace.dominant_emotion
    /\ recommendation' = ScriptNamespace.recommendation
    /\ raised' = ScriptNamespace.raised
    /\ col1' = "none"
    /\ col2' = << >>
    /\ lookups' = 0
    /\ analyzeCalls' = 0
    /\ passInput' = NoInput
    /\ IF CacheMiss(cache)
       THEN /\ loadRuns' = loadRuns + 1
            /\ cache' = load_deepface_resource
       ELSE UNCHANGED << loadRuns, cache >>
    /\ DEEPFACE_READY' = cache'
    /\ pc' = "camera"
    /\ UNCHANGED << widget, frameCalls, reruns, ref >>

\* lines 76-90: camera_image = st.camera_input(...), the guard of line 86,
\* and st.image(camera_image) in the first column
RunCamera ==
    /\ pc = "camera"
    /\ camera_image' = widget
    /\ IF PassGuard(widget, DEEPFACE_READY)
       THEN /\ col1' = widget
            /\ passInput' = [frame |-> widget, resp |-> NotInvoked]
            /\ pc' = "decode"
       ELSE /\ pc' = "idle"
            /\ UNCHANGED << col1, passInput >>
    /\ UNCHANGED << cache, loadRuns, widget, DEEPFACE_READY, img_array,
                    analysis_results, dominant_emotion, recommendation,
                    raised, col2, analyzeCalls, frameCalls, reruns, lookups,
                    prevKind, ref >>

\* lines 93-97
RunDecode ==
    /\ pc = "decode"
    /\ IF DecodeFrame(camera_image).ok
       THEN /\ img_array' = DecodeFrame(camera_image).img
            /\ pc' = "analyze"
            /\ UNCHANGED raised
       ELSE /\ raised' = [active |-> TRUE, e |-> DecodeFrame(camera_image).e]
            /\ pc' = "except"
            /\ UNCHANGED img_array
    /\ UNCHANGED << cache, loadRuns, widget, DEEPFACE_READY, camera_image,
                    analysis_results, dominant_emotion, recommendation, col1,
                    col2, analyzeCalls, frameCalls, reruns, lookups,
                    passInput, prevKind, ref >>

\* lines 100-106: DEEPFACE_READY.analyze(img_path=img_array, ...)
RunAnalyze ==
    /\ pc = "analyze"
    /\ \E r \in Responses :
         /\ passInput' = [passInput EXCEPT !.resp = r]
         /\ IF r.raises
            THEN /\ raised' = [active |-> TRUE, e |-> "ValueError: classifier failed"]
                 /\ pc' = "except"
                 /\ UNCHANGED analysis_results
            ELSE /\ analysis_results' = [kind |-> r.kind, faces |-> r.faces]
                 /\ pc' = "extract"
                 /\ UNCHANGED raised
    /\ analyzeCalls' = analyzeCalls + 1
    /\ frameCalls' = frameCalls + 1
    /\ UNCHANGED << cache, loadRuns, widget, DEEPFACE_READY, camera_image,
                    img_array, dominant_emotion, recommendation, col1, col2,
                    reruns, lookups, prevKind, ref >>

\* line 109
RunExtract ==
    /\ pc = "extract"
    /\ pc' = IF HasDominant(analysis_results) THEN "map" ELSE "noface"
    /\ UNCHANGED << cache, loadRuns, widget, DEEPFACE_READY, camera_image,
                    img_array, analysis_results, dominant_emotion,
                    recommendation, raised, col1, col2, analyzeCalls,
                    frameCalls, reruns, lookups, passInput, prevKind, ref >>

\* lines 111-112
RunMap ==
    /\ pc = "map"
    /\ dominant_emotion' = NormalizeLabel(analysis_results)
    /\ recommendation' = Recommend(dominant_emotion')
    /\ lookups' = lookups + 1
    /\ pc' = "render"
    /\ UNCHANGED << cache, loadRuns, widget, DEEPFACE_READY, camera_image,
                    img_array, analysis_results, raised, col1, col2,
                    analyzeCalls, frameCalls, reruns, passInput, prevKind, ref >>

\* lines 115-142
RunRender ==
    /\ pc = "render"
    /\ col2' = col2 \o ResultElements(dominant_emotion, recommendation)
    /\ pc' = "idle"
    /\ UNCHANGED << cache, loadRuns, widget, DEEPFACE_READY, camera_image,
                    img_array, analysis_results, dominant_emotion,
                    recommendation, raised, col1, analyzeCalls, frameCalls,
                    reruns, lookups, passInput, prevKind, ref >>

\* lines 145-147
RunNoFace ==
    /\ pc = "noface"
    /\ col2' = col2 \o NoFaceElements
    /\ pc' = "idle"
    /\ UNCHANGED << cache, loadRuns, widget, DEEPFACE_READY, camera_image,
                    img_array, analysis_results, dominant_emotion,
                    recommendation, raised, col1, analyzeCalls, frameCalls,
                    reruns, lookups, passInput, prevKind, ref >>

\* lines 149-152
RunExcept ==
    /\ pc = "except"
    /\ col2' = col2 \o ExceptElements(raised.e)
    /\ raised' = [raised EXCEPT !.active = FALSE]
    /\ pc' = AfterExcept
    /\ UNCHANGED << cache, loadRuns, widget, DEEPFACE_READY, camera_image,
                    img_array, analysis_results, dominant_emotion,
                    recommendation, col1, analyzeCalls, frameCalls, reruns,
                    lookups, passInput, prevKind, ref >>

ScriptRun ==
    \/ RunLoad
    \/ RunCamera
    \/ RunDecode
    \/ RunAnalyze
    \/ RunExtract
    \/ RunMap
    \/ RunRender
    \/ RunNoFace
    \/ RunExcept

Event ==
    \/ TakePhoto
    \/ ClearPhoto
    \/ Reload
    \/ Rerun

Next ==
    \/ Event
    \/ ScriptRun

Spec == Init /\ [][Next]_vars

\* A script run is synchronous: once an event has started it, Streamlit
\* executes it to its end.
FairSpec == Spec /\ WF_vars(ScriptRun)

----------------------------------------------------------------------------
(* Remembering the first capture pass of the process, the one no pass      *)
(* came before, to compare later passes with it                            *)

Remember ==
    /\ pc = "idle"
    /\ passInput.frame # "none"
    /\ prevKind = "none"
    /\ ~ref.set
    /\ ref' = [set |-> TRUE, input |-> passInput, kind |-> OutcomeKind, end |-> EndState]
    /\ UNCHANGED << cache, loadRuns, widget, pc, DEEPFACE_READY, camera_image,
                    img_array, analysis_results, dominant_emotion,
                    recommendation, raised, col1, col2, analyzeCalls,
                    frameCalls, reruns, lookups, passInput, prevKind >>

NextRemember ==
    \/ Event
    \/ ScriptRun
    \/ Remember

SpecRemember == Init /\ [][NextRemember]_vars

----------------------------------------------------------------------------
(* Vocabulary of the properties *)

\* a capture pass has run to its end
FinishedPass == pc = "idle" /\ passInput.frame # "none"

\* the classifier was invoked in the finished pass and returned
ClassifierReturned ==
    FinishedPass /\ passInput.resp.kind \in {"None", "notalist", "list"}

\* the dominant label of a classifier result: that of its top entry; the
\* empty label when the result is empty or its top entry has none
TopLabel(resp) ==
    IF resp.kind = "list" /\ Len(resp.faces) > 0 /\ resp.faces[1].present
    THEN resp.faces[1].dominant_emotion
    ELSE << >>

\* frames whose bytes do not decode to an image
Undecodable == {"garbage", "empty"}

ShowsText(t) == \E i \in DOMAIN col2 : col2[i].el = "markdown" /\ col2[i].text = t

ShowsLink(u) == \E i \in DOMAIN col2 : col2[i].el = "link_button" /\ col2[i].text = u

ShowsMood(m) == \E i \in DOMAIN col2 : col2[i].el = "success" /\ col2[i].mood = m

\* the column shows the entry of label k and of no other label
ShowsOnlyEntryOf(k) ==
    /\ ShowsText(MUSIC_MAPPING[k].text)
    /\ ShowsLink(MUSIC_MAPPING[k].url)
    /\ \A j \in DOMAIN MUSIC_MAPPING \ {k} :
         ~ShowsText(MUSIC_MAPPING[j].text) /\ ~ShowsLink(MUSIC_MAPPING[j].url)
    /\ Cardinality({i \in DOMAIN col2 : col2[i].el = "link_button"}) = 1

ShowsNoRecommendation ==
    /\ ~Rendered
    /\ \A j \in DOMAIN MUSIC_MAPPING :
         ~ShowsText(MUSIC_MAPPING[j].text) /\ ~ShowsLink(MUSIC_MAPPING[j].url)
    /\ \A i \in DOMAIN col2 : col2[i].el \notin {"success", "markdown", "subheader", "info"}

----------------------------------------------------------------------------
(* C1: when the classifier result of a pass has one of the seven labels as *)
(* its dominant emotion, the pass renders the display text and the URL     *)
(* registered for that label and the entry of no other label; for "happy"  *)
(* these are the High-Energy Telugu Pop & Dance Hits text and the URL that *)
(* ends in search_query=latest+telugu+party+songs+bounce.                  *)
C1_RegisteredEntryRendered ==
    \A L \in DefinedLabels :
        (ClassifierReturned /\ TopLabel(passInput.resp) = L) =>
            /\ OutcomeKind = "result"
            /\ ShowsOnlyEntryOf(L)
            /\ L = happy =>
                 /\ ShowsText("[U+1F604] High-Energy Telugu Pop & Dance Hits")
                 /\ ShowsLink("https://www.youtube.com/results?search_query=latest+telugu+party+songs+bounce")

C1_Witness ==
    /\ ClassifierReturned
    /\ TopLabel(passInput.resp) = disgust
    /\ ShowsLink("https://www.youtube.com/results?search_query=evergreen+telugu+romantic+hits+feel+good")

(* C2: for a non-empty dominant label whose lowercase form is none of the  *)
(* seven labels, the pass renders the entry of "neutral" and reports no    *)
(* error.                                                                  *)
C2_UnknownLabelRendersNeutral ==
    (/\ ClassifierReturned
     /\ TopLabel(passInput.resp) # << >>
     /\ lower(TopLabel(passInput.resp)) \notin DefinedLabels) =>
        /\ OutcomeKind = "result"
        /\ ShowsOnlyEntryOf(neutral)
        /\ ~NoFaceDetected
        /\ ~AnalysisFailure

C2_Witness ==
    /\ ClassifierReturned
    /\ TopLabel(passInput.resp) = << "C", "O", "N", "T", "E", "M", "P", "T" >>
    /\ ShowsText("[U+2615] Background Telugu Instrumental Tracks")

(* C3: when the classifier returns and its result is empty or its top      *)
(* entry has no dominant label, the pass reports NoFaceDetected and not    *)
(* AnalysisFailure, makes no table lookup and renders no recommendation    *)
(* text and no link button.                                                *)
C3_NoFaceDetected ==
    (ClassifierReturned /\ TopLabel(passInput.resp) = << >>) =>
        /\ OutcomeKind = "noface"
        /\ NoFaceDetected
        /\ ~AnalysisFailure
        /\ lookups = 0
        /\ recommendation = UnboundEntry
        /\ ShowsNoRecommendation

C3_Witness ==
    /\ ClassifierReturned
    /\ passInput.resp.kind = "list"
    /\ Len(passInput.resp.faces) > 1
    /\ ~passInput.resp.faces[1].present
    /\ NoFaceDetected

C5_CapturesIndependent ==
    (FinishedPass /\ ref.set /\ passInput = ref.input) =>
        /\ OutcomeKind = ref.kind
        /\ EndState = ref.end

C5_Witness ==
    /\ FinishedPass
    /\ ref.set
    /\ passInput = ref.input
    /\ prevKind = "result"
    /\ OutcomeKind = "noface"

C7_ResourceLoadedOnce ==
    /\ loadRuns <= 1
    /\ (loadRuns = 0) <=> (cache = "empty")
    /\ cache = "empty" => (pc = "load" /\ prevKind = "none" /\ passInput = NoInput)
    /\ cache # "empty" => cache = "DeepFace"
    /\ pc \notin {"load"} => DEEPFACE_READY = cache

C7_Witness ==
    /\ FinishedPass
    /\ prevKind # "none"
    /\ loadRuns = 1
    /\ DEEPFACE_READY = "DeepFace"

(* C8: while the camera widget holds no photo nothing is decoded, the      *)
(* classifier is not invoked, the table is not looked up, and once the run *)
(* for that widget value has started, the page shows no result and no      *)
(* error.                                                                  *)
C8_NoCaptureNoAction ==
    widget = "none" =>
        /\ pc \in {"load", "camera", "idle"}
        /\ pc # "load" =>
             /\ col1 = "none"
             /\ col2 = << >>
             /\ img_array = Unbound
             /\ analysis_results = UnboundResults
             /\ recommendation = UnboundEntry
             /\ analyzeCalls = 0
             /\ lookups = 0
             /\ passInput = NoInput

C8_Witness ==
    /\ widget = "none"
    /\ pc = "idle"
    /\ camera_image = "none"
    /\ prevKind = "result"

(* C9, as stated: the classifier is invoked at most once per captured      *)
(* frame; a further invocation happens only after a new capture.           *)
C9_OncePerFrame == frameCalls <= 1

(* C9, amended: the classifier is invoked at most once per run of the      *)
(* script, so a run that ends in AnalysisFailure or NoFaceDetected is not  *)
(* retried; the frame is analyzed again only by a later run, which needs a *)
(* new capture or Streamlit running the script again on the held photo.    *)
C9_OncePerRun ==
    /\ analyzeCalls <= 1
    /\ frameCalls <= reruns + 1

C9_Witness ==
    /\ FinishedPass
    /\ OutcomeKind \in {"noface", "failure"}
    /\ passInput.resp # NotInvoked
    /\ analyzeCalls = 1
    /\ frameCalls = 1

(* C10: the table is looked up with the lowercase form of the dominant     *)
(* label: two passes whose labels have the same lowercase form render the  *)
(* same entry, a case variant of a defined label renders that label's      *)
(* entry, and the label the pass looked up is its own lowercase form.      *)
C10_LookupByLowercase ==
    /\ (ClassifierReturned /\ lower(TopLabel(passInput.resp)) \in DefinedLabels) =>
           /\ ShowsOnlyEntryOf(lower(TopLabel(passInput.resp)))
           /\ ShowsMood(upper(TopLabel(passInput.resp)))
    /\ (Rendered /\ FinishedPass) => lower(dominant_emotion) = dominant_emotion
    /\ (/\ ClassifierReturned
        /\ ref.set
        /\ ref.kind = "result"
        /\ TopLabel(passInput.resp) # << >>
        /\ lower(TopLabel(passInput.resp)) = lower(TopLabel(ref.input.resp))) =>
           /\ recommendation = ref.end.recommendation
           /\ \A i \in DOMAIN ref.end.col2 :
                ref.end.col2[i].el \in {"markdown", "link_button"} =>
                    \E j \in DOMAIN col2 : col2[j] = ref.end.col2[i]

C10_Witness ==
    /\ ClassifierReturned
    /\ ref.set
    /\ TopLabel(ref.input.resp) = << "h", "A", "p", "P", "y" >>
    /\ TopLabel(passInput.resp) = happy
    /\ ShowsOnlyEntryOf(happy)

====
